---- MODULE Spec2Model ----
(***************************************************************************)
(* Model of the All-Drive sync engine:                                     *)
(*   - the sync supervisor of the Electron main process                    *)
(*     (startBackgroundPython / stopBackgroundPython, gcp:startSync,       *)
(*     gcp:stopSync),                                                      *)
(*   - the remote lister and the view merger (gcp:listObjects,             *)
(*     runPythonCode, FileExplorer.loadObjects),                           *)
(*   - the sync-event pipeline and the status tracker (log_event,          *)
(*     upload_file, watcher_callback, the stdout data handler,             *)
(*     setSyncStatuses),                                                   *)
(*   - the GCPAdapter of the sync script against the bucket (upload_file,  *)
(*     create_folder, delete_object),                                      *)
(*   - the supervisor driven by the stages of the sync script,             *)
(*   - the explorer page with its loadObjects calls in flight, its         *)
(*     deletions (gcp:deleteObject), gcp:authenticate and its sync         *)
(*     buttons (handleStartSync, handleStopSync).                          *)
(***************************************************************************)
EXTENDS Integers, Sequences, FiniteSets, TLC

(***************************************************************************)
(* Bounds of the model.                                                    *)
(***************************************************************************)
\* number of startSync calls whose closure (process, timers, promise) can
\* still act at the same time
MaxSessions == 2

(***************************************************************************)
(* Program constants.                                                      *)
(***************************************************************************)
MAX_RESTARTS == 3

\* activeSyncProcess = null
NULL == 0
\* exit code reported by 'close' for a process ended by a signal (code === null)
SIGNALLED == -1
\* exit code of a process that crashed (any non-zero code)
CRASHED == 1

Sessions == 1..MaxSessions

VARIABLES
    \* ---- sync supervisor (main process) ----
    activeSyncProcess,  \* module-level: the ChildProcess referred to, or NULL
    restartCount,       \* module-level counter
    procs,              \* session -> the ChildProcess its launch() spawned last
    hasResolved,        \* session -> closure variable of startBackgroundPython
    result,             \* session -> state of the promise returned by startSync
    timer,              \* session -> setTimeout(launch, 2000) is pending
    fallback,           \* session -> the 8 s start timeout is pending
    restarts,           \* session -> launches performed by the restart timer
    terminal,           \* session -> "no": not in terminal Error; "silent" /
                        \* "reported": the close handler that saw the last crash
                        \* delivered nothing / something to the caller
    lastCall,           \* last supervisor IPC call and what it returned
    current             \* session of the last gcp:startSync call (its localPath
                        \* and bucketName are the ones asked for), 0 before it

supVars == <<activeSyncProcess, restartCount, procs, hasResolved, result, timer,
             fallback, restarts, terminal, lastCall, current>>

VARIABLES
    \* ---- file explorer (renderer) and its collaborators ----
    bucket,             \* names of the objects of the bucket
    authOK,             \* the object store accepts the credentials
    localTree,          \* entries of the local synced folder
    lastSyncPath,       \* FileExplorer prop
    currentLocalPath,   \* FileExplorer state
    gcsResult,          \* what the last gcp:listObjects call returned
    objects             \* FileExplorer state: the listing shown

mergeVars == <<bucket, authOK, localTree, lastSyncPath, currentLocalPath,
               gcsResult, objects>>

VARIABLES
    \* ---- one run of the python sync script, its stdout, the status tracker ----
    fsFiles,            \* relative paths of the files in the local synced folder
    pyPhase,            \* "scan": scan_and_upload; "watch": RealTimeSync started
    toScan,             \* files os.walk has not reached yet
    cyc,                \* path -> "idle" | "detected" | "uploading" | "deleting"
    emitted,            \* the JSON lines written to stdout so far, in order
    consumed,           \* how many of them the stdout 'data' handler has read
    delivered,          \* the events passed to onEvent, in order
    syncStatuses,       \* GCPPage state: event.file -> event.status
    handled,            \* how many of them the page has handled
    since               \* path -> what happened to the file since its status
                        \* last became synced: "none" | "deleted" | "recreated"

evVars == <<fsFiles, pyPhase, toScan, cyc, emitted, consumed, delivered,
            handled, syncStatuses, since>>

VARIABLES
    \* ---- GCPAdapter calls against the bucket ----
    ossep,              \* os.sep of the platform the sync script runs on
    lastOp              \* the last adapter call

adVars == <<ossep, lastOp>>

VARIABLES
    \* ---- what a sync script finds when it runs ----
    credsOK,            \* the credentials are present and accepted
    pathOK              \* the localPath given to gcp:startSync exists

envVars == <<credsOK, pathOK>>

VARIABLES
    \* ---- the page's calls to the main process, and the credentials ----
    calls,                  \* calls of the renderer that await their reply
    opResult,               \* the last bucket operation and its PythonResult
    activeCredentialPath,   \* registerGCPHandlers: the credential in use
    lastCredentialPath      \* gcp_session.json: the credential persisted

uiVars == <<calls, opResult, activeCredentialPath, lastCredentialPath>>

vars == <<supVars, mergeVars, evVars, adVars, envVars, uiVars>>

\* what a step of one part leaves alone
notSup == <<mergeVars, evVars, adVars, envVars, uiVars>>
notMerge == <<supVars, evVars, adVars, envVars, uiVars>>
notEv == <<supVars, mergeVars, adVars, envVars, uiVars>>
\* what an adapter call leaves alone, the bucket apart
notAd == <<supVars, authOK, localTree, lastSyncPath, currentLocalPath,
           gcsResult, objects, evVars, envVars, uiVars>>
\* the same without the bucket, which the sync script writes
notEvBucket == <<supVars, authOK, localTree, lastSyncPath, currentLocalPath,
                 gcsResult, objects, adVars, envVars, uiVars>>

(***************************************************************************)
(* A ChildProcess.  A session (one startBackgroundPython call) has at most *)
(* one process whose callbacks can still run: launch() replaces it only    *)
(* from the restart timer, which is set by the 'close' of the previous     *)
(* one.  activeSyncProcess therefore always refers to the latest process   *)
(* of some session and is represented by that session's number.            *)
(*   status: "unborn"  startSync of the session not yet called             *)
(*           "running" the OS process is alive                             *)
(*           "exited"  the OS process is dead, 'close' not yet emitted     *)
(*           "closed"  'close' has been emitted, or launch() has removed   *)
(*                     the listeners and killed it: no callback of the     *)
(*                     process runs any more                               *)
(*   stage:  how far the sync script of the process has got                *)
(*           "boot"    nothing printed yet                                 *)
(*           "init"    the success line is printed                         *)
(*           "scan"    GCPAdapter created, scan_and_upload running         *)
(*           "watch"   RealTimeSync started                                *)
(*   piped:  a line the script printed (an event or a log line) is in the  *)
(*           stdout pipe, not yet read by the 'data' handler               *)
(***************************************************************************)
NoProc == [status |-> "unborn", code |-> 0, stderrLogged |-> FALSE,
           stage |-> "boot", piped |-> FALSE]

\* the fields of a process nobody can observe any more
Closed == [NoProc EXCEPT !.status = "closed"]

InitSup ==
    /\ activeSyncProcess = NULL
    /\ restartCount = 0
    /\ procs = [s \in Sessions |-> NoProc]
    /\ hasResolved = [s \in Sessions |-> FALSE]
    /\ result = [s \in Sessions |-> "pending"]
    /\ timer = [s \in Sessions |-> FALSE]
    /\ fallback = [s \in Sessions |-> FALSE]
    /\ restarts = [s \in Sessions |-> 0]
    /\ terminal = [s \in Sessions |-> "no"]
    /\ lastCall = "none"
    /\ current = 0

Alive(s) == procs[s].status = "running"

\* resolve(v) on the promise of session s: only the first resolution counts
Resolve(res, s, v) == IF res[s] = "pending" THEN [res EXCEPT ![s] = v] ELSE res

(***************************************************************************)
(* launch() of session s: kill the process activeSyncProcess refers to     *)
(* (after removing its listeners), spawn a new one and make it active.     *)
(***************************************************************************)
KillSilently(ps, a) == IF a = NULL THEN ps ELSE [ps EXCEPT ![a] = Closed]

\* a launch whose process takes up watching where the last one stopped
launchResuming(s) ==
    /\ procs' = [KillSilently(procs, activeSyncProcess) EXCEPT
                    ![s] = [NoProc EXCEPT !.status = "running", !.stage = "watch"]]
    /\ activeSyncProcess' = s

launch(s) ==
    /\ procs' = [KillSilently(procs, activeSyncProcess) EXCEPT
                    ![s] = [NoProc EXCEPT !.status = "running"]]
    /\ activeSyncProcess' = s

\* Nothing of the startBackgroundPython call numbered s can act any more: its
\* process has closed, no restart timer is pending, and the start timeout has
\* fired or can only write the closure's own hasResolved (the promise is
\* settled).  The number is free for the next call.
Finished(s) ==
    /\ procs[s].status = "closed"
    /\ ~timer[s]
    /\ (result[s] # "pending" \/ ~fallback[s])

Free(s) == procs[s].status = "unborn" \/ Finished(s)

\* startBackgroundPython: a new closure (hasResolved = false, a new
\* promise), launch(), and the start timeout
startBackgroundPython(s) ==
    /\ Free(s)
    /\ \A t \in Sessions : t < s => ~Free(t)
    /\ launch(s)
    /\ hasResolved' = [hasResolved EXCEPT ![s] = FALSE]
    /\ result' = [result EXCEPT ![s] = "pending"]
    /\ fallback' = [fallback EXCEPT ![s] = TRUE]
    /\ restarts' = [restarts EXCEPT ![s] = 0]
    /\ terminal' = [terminal EXCEPT ![s] = "no"]
    /\ lastCall' = "start"
    /\ current' = s
    /\ UNCHANGED <<restartCount, timer>>

\* ipcMain.handle('gcp:startSync') -> startBackgroundPython
StartSync(s) ==
    /\ UNCHANGED notSup
    /\ startBackgroundPython(s)

\* the python process ends on its own: exit code 0 (an exception caught by the
\* script's outer try) or a non-zero code (crash)
ProcExit(s, c) ==
    /\ UNCHANGED notSup
    /\ Alive(s)
    /\ procs' = [procs EXCEPT ![s].status = "exited", ![s].code = c]
    /\ UNCHANGED <<activeSyncProcess, restartCount, hasResolved, result, timer,
                   fallback, restarts, terminal, lastCall, current>>

\* the branch of the stdout 'data' handler for a line with success === true
OnSuccessLine(s) ==
    IF ~hasResolved[s]
    THEN /\ hasResolved' = [hasResolved EXCEPT ![s] = TRUE]
         /\ result' = Resolve(result, s, "success")
    ELSE UNCHANGED <<hasResolved, result>>

\* stdout 'data' handler receiving the line {'success': True, ...}
StdoutSuccess(s) ==
    /\ UNCHANGED notSup
    /\ Alive(s)
    /\ OnSuccessLine(s)
    /\ UNCHANGED <<activeSyncProcess, restartCount, procs, timer, fallback,
                   restarts, terminal, lastCall, current>>

\* stderr 'data' handler: onLog(`[STDERR] ...`), here for the output of a
\* crashing process (its traceback)
StderrData(s) ==
    /\ UNCHANGED notSup
    /\ procs[s].status = "exited"
    /\ procs[s].code = CRASHED
    /\ ~procs[s].stderrLogged
    /\ procs' = [procs EXCEPT ![s].stderrLogged = TRUE]
    /\ UNCHANGED <<activeSyncProcess, restartCount, hasResolved, result, timer,
                   fallback, restarts, terminal, lastCall, current>>

\* pythonProcess.on('close', code => ...): emitted once the process has ended
\* and its stdio streams are closed, what was in the pipes having been read
OnClose(s) ==
    /\ UNCHANGED notSup
    /\ procs[s].status = "exited"
    /\ ~procs[s].piped
    /\ procs' = [procs EXCEPT ![s] = Closed]
    /\ LET code == procs[s].code
       IN  IF code # 0 /\ restartCount < MAX_RESTARTS
           THEN /\ restartCount' = restartCount + 1
                /\ timer' = [timer EXCEPT ![s] = TRUE]
                /\ UNCHANGED <<activeSyncProcess, result, terminal>>
           ELSE /\ activeSyncProcess' = NULL
                /\ IF ~hasResolved[s]
                   THEN /\ restartCount' = 0
                        /\ result' = Resolve(result, s, "failure")
                   ELSE UNCHANGED <<restartCount, result>>
                /\ terminal' =
                      [terminal EXCEPT
                         ![s] = IF code # CRASHED THEN @
                                ELSE IF (~hasResolved[s] /\ result[s] = "pending")
                                        \/ procs[s].stderrLogged
                                     THEN "reported" ELSE "silent"]
                /\ UNCHANGED timer
    /\ UNCHANGED <<hasResolved, fallback, restarts, lastCall, current>>

\* setTimeout(launch, 2000) fires
RestartTimer(s) ==
    /\ UNCHANGED notSup
    /\ timer[s]
    /\ timer' = [timer EXCEPT ![s] = FALSE]
    /\ launch(s)
    /\ restarts' = [restarts EXCEPT ![s] = IF @ > MAX_RESTARTS THEN @ ELSE @ + 1]
    /\ UNCHANGED <<restartCount, hasResolved, result, fallback, terminal,
                   lastCall, current>>

\* the 8 s safety timeout of startBackgroundPython fires
FallbackTimer(s) ==
    /\ UNCHANGED notSup
    /\ fallback[s]
    /\ fallback' = [fallback EXCEPT ![s] = FALSE]
    /\ IF ~hasResolved[s] /\ activeSyncProcess # NULL
       THEN /\ hasResolved' = [hasResolved EXCEPT ![s] = TRUE]
            /\ result' = Resolve(result, s, "success")
       ELSE UNCHANGED <<hasResolved, result>>
    /\ UNCHANGED <<activeSyncProcess, restartCount, procs, timer, restarts,
                   terminal, lastCall, current>>

\* stopBackgroundPython(): TRUE when a process object was referenced
stopBackgroundPython(ret) ==
    IF activeSyncProcess # NULL
    THEN /\ restartCount' = MAX_RESTARTS + 1
         /\ procs' = [procs EXCEPT
                        ![activeSyncProcess] =
                            IF Alive(activeSyncProcess)
                            THEN [@ EXCEPT !.status = "exited", !.code = SIGNALLED]
                            ELSE @]
         /\ activeSyncProcess' = NULL
         /\ ret = TRUE
    ELSE /\ ret = FALSE
         /\ UNCHANGED <<restartCount, procs, activeSyncProcess>>

\* ipcMain.handle('gcp:stopSync'): returns { success: killed }
StopSync ==
    /\ UNCHANGED notSup
    /\ \E killed \in BOOLEAN :
          /\ stopBackgroundPython(killed)
          /\ lastCall' = IF killed THEN "stopTrue" ELSE "stopFalse"
    /\ UNCHANGED <<hasResolved, result, timer, fallback, restarts, terminal,
                   current>>

NextSup ==
    \/ \E s \in Sessions : StartSync(s)
    \/ \E s \in Sessions : ProcExit(s, 0)
    \/ \E s \in Sessions : ProcExit(s, CRASHED)
    \/ \E s \in Sessions : StdoutSuccess(s)
    \/ \E s \in Sessions : StderrData(s)
    \/ \E s \in Sessions : OnClose(s)
    \/ \E s \in Sessions : RestartTimer(s)
    \/ \E s \in Sessions : FallbackTimer(s)
    \/ StopSync

(***************************************************************************)
(* The supervisor driven by the sync script of gcp:startSync instead of an *)
(* arbitrary process: the script prints its success line, creates the      *)
(* GCPAdapter, scans, then starts the watcher.                             *)
(***************************************************************************)
Stage(s, st) == [procs EXCEPT ![s].stage = st]

\* the script ends through its outer except (or after a failed start of the
\* watcher): it prints {'success': False, ...} and exits with code 0
ScriptGivesUp(s) == [procs EXCEPT ![s].status = "exited", ![s].code = 0]

supFrame == <<activeSyncProcess, restartCount, timer, fallback, restarts,
              terminal, lastCall, current>>

\* from file_watcher import RealTimeSync / from google.cloud import storage
\* raising: nothing but the failure line is printed
ScriptImportFails(s) ==
    /\ UNCHANGED notSup
    /\ Alive(s) /\ procs[s].stage = "boot"
    /\ procs' = ScriptGivesUp(s)
    /\ UNCHANGED <<supFrame, hasResolved, result>>

\* print(json.dumps({'success': True, ...})), read by the 'data' handler
ScriptSuccessLine(s) ==
    /\ UNCHANGED notSup
    /\ Alive(s) /\ procs[s].stage = "boot"
    /\ procs' = Stage(s, "init")
    /\ OnSuccessLine(s)
    /\ UNCHANGED supFrame

\* adapter = GCPAdapter(root_path): storage.Client() raises when there are no
\* credentials; with credentials that are present but refused it may only
\* fail later, call by call
ScriptCreatesAdapter(s) ==
    /\ UNCHANGED notSup
    /\ Alive(s) /\ procs[s].stage = "init"
    /\ \E raises \in (IF credsOK THEN {FALSE} ELSE BOOLEAN) :
          procs' = IF raises THEN ScriptGivesUp(s) ELSE Stage(s, "scan")
    /\ UNCHANGED <<supFrame, hasResolved, result>>

\* scan_and_upload returns (os.walk of a missing folder yields nothing) and
\* RealTimeSync(...).start() is called
ScriptStartsWatcher(s) ==
    /\ UNCHANGED notSup
    /\ Alive(s) /\ procs[s].stage = "scan"
    /\ \E started \in (IF pathOK THEN {TRUE} ELSE BOOLEAN) :
          procs' = IF started THEN Stage(s, "watch") ELSE ScriptGivesUp(s)
    /\ UNCHANGED <<supFrame, hasResolved, result>>

\* log_event(...) or print(...) of the scan or of the watcher callback: a
\* line goes into the stdout pipe
ScriptPrints(s) ==
    /\ UNCHANGED notSup
    /\ Alive(s) /\ procs[s].stage \in {"scan", "watch"}
    /\ ~procs[s].piped
    /\ procs' = [procs EXCEPT ![s].piped = TRUE]
    /\ UNCHANGED <<supFrame, hasResolved, result>>

\* stdout 'data' handler receiving that line: onEvent(event) for a sync
\* event, onLog(line) otherwise. The pipe is read until it is empty, also
\* after the process has ended.
StdoutLine(s) ==
    /\ UNCHANGED notSup
    /\ procs[s].status \in {"running", "exited"}
    /\ procs[s].piped
    /\ procs' = [procs EXCEPT ![s].piped = FALSE]
    /\ UNCHANGED <<supFrame, hasResolved, result>>

NextScript ==
    \/ StartSync(1)
    \/ ScriptImportFails(1)
    \/ ScriptSuccessLine(1)
    \/ ScriptCreatesAdapter(1)
    \/ ScriptStartsWatcher(1)
    \/ ScriptPrints(1)
    \/ StdoutLine(1)
    \/ ProcExit(1, CRASHED)
    \/ StderrData(1)
    \/ OnClose(1)
    \/ RestartTimer(1)
    \/ FallbackTimer(1)
    \/ StopSync

InitEnv ==
    /\ credsOK \in BOOLEAN
    /\ pathOK \in BOOLEAN

\* no sync script running
IdleEv ==
    /\ fsFiles = {}
    /\ pyPhase = "scan"
    /\ toScan = {}
    /\ cyc = <<>>
    /\ emitted = <<>>
    /\ consumed = 0
    /\ delivered = <<>>
    /\ handled = 0
    /\ syncStatuses = <<>>
    /\ since = <<>>

\* nothing wrong around the sync script
IdleEnv ==
    /\ credsOK = TRUE
    /\ pathOK = TRUE

\* no adapter call observed
NoOp == [op |-> "none", segs |-> <<>>, path |-> <<>>, key |-> <<>>, done |-> 0,
         changed |-> FALSE, nth |-> 1]

IdleAd ==
    /\ ossep = "/"
    /\ lastOp = NoOp

\* no credential chosen (activeCredentialPath = null, no session file)
NoCred == <<>>

\* no bucket operation observed
NoResult == [op |-> "none", name |-> <<>>, stored |-> FALSE, success |-> FALSE]

\* the page at rest
IdleUi ==
    /\ calls = {}
    /\ opResult = NoResult
    /\ activeCredentialPath = NoCred
    /\ lastCredentialPath = NoCred

\* the explorer at rest
IdleMerge ==
    /\ bucket = {}
    /\ authOK = TRUE
    /\ localTree = {}
    /\ lastSyncPath = <<>>
    /\ currentLocalPath = <<>>
    /\ gcsResult = [success |-> TRUE, data |-> <<>>, kind |-> "json"]
    /\ objects = <<>>

Init == InitSup /\ IdleMerge /\ IdleEv /\ IdleAd /\ IdleEnv /\ IdleUi

Spec == Init /\ [][NextSup]_vars

\* the event loop of the main process runs every callback that is due: a
\* timer that was set fires, and the 'close' of a process that has ended is
\* emitted
FairSup ==
    \A s \in Sessions :
        /\ WF_vars(OnClose(s))
        /\ WF_vars(RestartTimer(s))
        /\ WF_vars(FallbackTimer(s))

SpecLive == Init /\ [][NextSup]_vars /\ FairSup

InitScript == InitSup /\ IdleMerge /\ IdleEv /\ IdleAd /\ InitEnv /\ IdleUi

SpecScript == InitScript /\ [][NextScript]_vars

(***************************************************************************)
(* Strings.  A string is a sequence of one-character strings, so that the  *)
(* path operations of the code (split, replace, startsWith, trim) are      *)
(* computed character by character.                                        *)
(***************************************************************************)
Seps == {"/", "\\"}

StartsWith(s, pre) == Len(pre) <= Len(s) /\ SubSeq(s, 1, Len(pre)) = pre

\* s.substring(n)
Substring(s, n) == SubSeq(s, n + 1, Len(s))

\* s.replace(/\/$/, ''): one trailing slash removed
StripSlash(s) ==
    IF Len(s) > 0 /\ s[Len(s)] = "/" THEN SubSeq(s, 1, Len(s) - 1) ELSE s

\* s.replace(/[/\\]+$/, ''): all trailing separators removed
RECURSIVE StripSeps(_)
StripSeps(s) ==
    IF Len(s) > 0 /\ s[Len(s)] \in Seps THEN StripSeps(SubSeq(s, 1, Len(s) - 1)) ELSE s

\* s.split(sep): the segments between the characters of seps, empty ones kept
RECURSIVE Split(_, _)
Split(s, seps) ==
    IF \E i \in 1..Len(s) : s[i] \in seps
    THEN LET i == CHOOSE j \in 1..Len(s) :
                     s[j] \in seps /\ \A k \in 1..(j - 1) : s[k] \notin seps
         IN  <<SubSeq(s, 1, i - 1)>> \o Split(Substring(s, i), seps)
    ELSE <<s>>

\* segs.join('/')
RECURSIVE Join(_)
Join(segs) ==
    IF Len(segs) = 0 THEN <<>>
    ELSE IF Len(segs) = 1 THEN segs[1]
    ELSE segs[1] \o <<"/">> \o Join(Tail(segs))

\* array.pop() as a value: the last element
Last(q) == q[Len(q)]

\* s.trim() is the empty string
Blank(s) == \A i \in 1..Len(s) : s[i] = " "

\* `${a}/${b}`
Slash(a, b) == a \o <<"/">> \o b

\* s.replace(/\/+/g, '/'): runs of slashes collapsed
RECURSIVE CollapseSlashes(_)
CollapseSlashes(s) ==
    IF Len(s) < 2 THEN s
    ELSE IF s[1] = "/" /\ s[2] = "/" THEN CollapseSlashes(Tail(s))
    ELSE <<s[1]>> \o CollapseSlashes(Tail(s))

\* s.replace(/\\/g, '/')
ForwardSlashes(s) == [i \in 1..Len(s) |-> IF s[i] = "\\" THEN "/" ELSE s[i]]

\* the order in which the object store lists names (lexicographic)
Alphabet == <<" ", "/", "D", "\\", "a", "b", "s">>
Rank(c) == CHOOSE i \in 1..Len(Alphabet) : Alphabet[i] = c

RECURSIVE Before(_, _)
Before(s, u) ==
    IF Len(s) = 0 THEN Len(u) > 0
    ELSE IF Len(u) = 0 THEN FALSE
    ELSE IF s[1] = u[1] THEN Before(Tail(s), Tail(u))
    ELSE Rank(s[1]) < Rank(u[1])

RECURSIVE Sorted(_)
Sorted(S) ==
    IF S = {} THEN <<>>
    ELSE LET m == CHOOSE x \in S : \A y \in S \ {x} : Before(x, y)
         IN  <<m>> \o Sorted(S \ {m})

Range(q) == {q[i] : i \in 1..Len(q)}

(***************************************************************************)
(* Remote lister: the python script of gcp:listObjects and runPythonCode.  *)
(***************************************************************************)
\* largest number of objects in the bucket
MaxObjects == 3
\* deepest folder the explorer is taken into (segments of currentLocalPath)
MaxDepth == 3

\* names of a GCS object / of a listing entry used in the model
kRoot    == <<"D", "/">>
kRootA   == <<"D", "/", "a">>
kRootB   == <<"D", "/", "b">>
kRootS   == <<"D", "/", "s", "/">>
kRootSA  == <<"D", "/", "s", "/", "a">>
kD       == <<"D">>
kA       == <<"a">>
kAB      == <<"a", "/", "b">>
kB       == <<"b">>
kSA      == <<"s", "/", "a">>
kSlash   == <<"/">>
kBlankA  == <<" ", "/", "a">>
kABack   == <<"a", "\\">>
kBack    == <<"\\">>

KeyUniverse == {kRoot, kRootA, kRootB, kRootS, kRootSA, kD, kA, kAB, kB, kSA,
                kSlash, kBlankA, kABack, kBack}

Buckets == {B \in SUBSET KeyUniverse : Cardinality(B) <= MaxObjects}

\* the local tree under the synced root: relative path and kind of each entry
LocalUniverse == {[path |-> <<"a">>, dir |-> FALSE],
                  [path |-> <<"s">>, dir |-> TRUE],
                  [path |-> <<"s", "/", "a">>, dir |-> FALSE]}

LocalTrees ==
    {T \in SUBSET LocalUniverse :
        ([path |-> <<"s", "/", "a">>, dir |-> FALSE] \in T)
            => ([path |-> <<"s">>, dir |-> TRUE] \in T)}

\* the folder selected with gcp:openDirectory, or NoSync (lastSyncPath = null)
NoSync == <<>>
SyncPaths == {NoSync, <<"/", "D">>}

\* currentPrefix: _setCurrentPrefix is never called, the state stays ''
currentPrefix == <<>>

\* bucket.list_blobs(prefix, delimiter='/'): the objects directly under prefix
ListBlobs(B, prefix) ==
    {k \in B : StartsWith(k, prefix) /\ "/" \notin Range(Substring(k, Len(prefix)))}

\* iterator.prefixes: the common prefixes up to the next delimiter
ListPrefixes(B, prefix) ==
    {prefix \o Split(Substring(k, Len(prefix)), {"/"})[1] \o <<"/">> :
        k \in {x \in B : StartsWith(x, prefix)
                         /\ "/" \in Range(Substring(x, Len(prefix)))}}

GcsFile(k) == [name |-> k, contentType |-> "file", syncState |-> "none", isLocal |-> FALSE]
GcsFolder(k) == [name |-> k, contentType |-> "directory", syncState |-> "none",
                 isLocal |-> FALSE]

\* stdout of the python script of gcp:listObjects; a line is JSON or text
ListObjectsScript(B, ok, prefix) ==
    IF ok
    THEN <<[json |-> TRUE,
            val |-> [i \in 1..Cardinality(ListBlobs(B, prefix)) |->
                        GcsFile(Sorted(ListBlobs(B, prefix))[i])]
                    \o [i \in 1..Cardinality(ListPrefixes(B, prefix)) |->
                        GcsFolder(Sorted(ListPrefixes(B, prefix))[i])]]>>
    ELSE <<[json |-> FALSE, val |-> <<>>], [json |-> TRUE, val |-> <<>>]>>

\* runPythonCode, 'close' handler: the PythonResult of exit code and stdout
runPythonCode(code, stdout) ==
    IF code = 0
    THEN IF Len(stdout) > 0 /\ Last(stdout).json
         THEN [success |-> TRUE, data |-> Last(stdout).val, kind |-> "json"]
         ELSE [success |-> TRUE, data |-> <<>>, kind |-> "text"]
    ELSE [success |-> FALSE, data |-> <<>>, kind |-> "error"]

\* ipcMain.handle('gcp:listObjects'): the script catches every exception, so
\* the process exits with code 0
listObjects(B, ok, prefix) == runPythonCode(0, ListObjectsScript(B, ok, prefix))

(***************************************************************************)
(* Local scanner: the python script of gcp:listLocalFolder.                *)
(***************************************************************************)
\* the path of fullLocalPath relative to the synced root, when it is inside
InsideRoot(root, full) == full = root \/ StartsWith(full, root \o <<"/">>)
RelToRoot(root, full) == IF full = root THEN <<>> ELSE Substring(full, Len(root) + 1)

LocalChildren(T, rel) ==
    {e \in T : IF rel = <<>> THEN "/" \notin Range(e.path)
               ELSE /\ StartsWith(e.path, rel \o <<"/">>)
                    /\ "/" \notin Range(Substring(e.path, Len(rel) + 1))}

LocalItem(e) ==
    [name |-> Last(Split(e.path, {"/"})),
     contentType |-> IF e.dir THEN "directory" ELSE "file",
     syncState |-> "none", isLocal |-> TRUE]

\* os.path.exists(path) false, or listdir of a file raising: []
listLocalFolder(T, root, full) ==
    LET rel == RelToRoot(root, full)
        isDir == rel = <<>> \/ [path |-> rel, dir |-> TRUE] \in T
        names == {LocalItem(e).name : e \in LocalChildren(T, rel)}
    IN  IF InsideRoot(root, full) /\ isDir
        THEN [success |-> TRUE,
              data |-> [i \in 1..Cardinality(names) |->
                           LocalItem(CHOOSE e \in LocalChildren(T, rel) :
                                        LocalItem(e).name = Sorted(names)[i])],
              kind |-> "json"]
        ELSE [success |-> TRUE, data |-> <<>>, kind |-> "json"]

(***************************************************************************)
(* View merger: FileExplorer.loadObjects.                                  *)
(***************************************************************************)
Desktop == <<"D", "e", "s", "k", "t", "o", "p">>

\* lastSyncPath.split(/[/\\]/).pop() || 'Desktop'
RootName(sync) ==
    IF Last(Split(sync, Seps)) = <<>> THEN Desktop ELSE Last(Split(sync, Seps))

HasName(files, n) == \E j \in 1..Len(files) : files[j].name = n

\* virtual root: the gcsFiles.forEach that adds what is not under rootName
RECURSIVE AddOthers(_, _, _)
AddOthers(files, gcs, rootName) ==
    IF Len(gcs) = 0 THEN files
    ELSE LET cleanGcsName == StripSlash(gcs[1].name)
             baseName == Split(cleanGcsName, {"/"})[1]
             keep == /\ cleanGcsName # <<>>
                     /\ ~Blank(baseName)
                     /\ baseName # rootName
                     /\ ~HasName(files, baseName)
         IN  AddOthers(IF keep
                       THEN Append(files, [gcs[1] EXCEPT !.name = baseName,
                                                         !.isLocal = FALSE,
                                                         !.syncState = "synced"])
                       ELSE files,
                       Tail(gcs), rootName)

\* inside a folder: relativePath of currentLocalPath
RelativePath(cur, rootName) ==
    IF cur = rootName THEN <<>>
    ELSE IF StartsWith(cur, rootName \o <<"/">>) THEN Substring(cur, Len(rootName) + 1)
    ELSE cur

FullLocalPath(sync, relativePath) ==
    IF relativePath # <<>> THEN ForwardSlashes(Slash(sync, relativePath)) ELSE sync

\* inside a folder: localItems.map, the match of a local item with gcsFiles
MatchLocal(local, gcsFiles, relativePath, rootName) ==
    LET gcsPath == IF relativePath # <<>> THEN Slash(relativePath, local.name)
                   ELSE local.name
        gcsMatch == \E j \in 1..Len(gcsFiles) :
                        \/ StripSlash(gcsFiles[j].name) = gcsPath
                        \/ StripSlash(gcsFiles[j].name) = Slash(rootName, gcsPath)
    IN  [local EXCEPT !.syncState = IF gcsMatch THEN "synced" ELSE "pending"]

\* inside a folder: the gcsFiles.forEach that adds the cloud-only entries
RECURSIVE AddCloudOnly(_, _, _, _)
AddCloudOnly(files, gcs, relativePath, rootName) ==
    IF Len(gcs) = 0 THEN files
    ELSE LET cleanG == StripSlash(gcs[1].name)
             parts == Split(cleanG, {"/"})
             gcsName == IF Last(parts) = <<>> THEN cleanG ELSE Last(parts)
             gcsPrefix == Join(SubSeq(parts, 1, Len(parts) - 1))
             curPrefix == IF relativePath # <<>> THEN Slash(rootName, relativePath)
                          ELSE rootName
             matchesCurrentLevel ==
                 gcsPrefix = curPrefix \/ (relativePath = <<>> /\ gcsPrefix = rootName)
             keep == /\ ~Blank(cleanG)
                     /\ matchesCurrentLevel
                     /\ gcsName # <<>>
                     /\ ~HasName(files, gcsName)
         IN  AddCloudOnly(IF keep
                          THEN Append(files, [gcs[1] EXCEPT !.name = gcsName,
                                                            !.isLocal = FALSE,
                                                            !.syncState = "synced"])
                          ELSE files,
                          Tail(gcs), relativePath, rootName)

\* standard cloud view: gcsFiles.filter
CloudView(gcsFiles) ==
    SelectSeq(gcsFiles, LAMBDA f : ~Blank(Last(Split(StripSlash(f.name), {"/"}))))

\* the normalisation of the names alone
FinalSafetyStripOnly(files) ==
    [j \in 1..Len(files) |-> [files[j] EXCEPT !.name = StripSeps(@)]]

\* FINAL SAFETY: names without trailing separators, no empty display name
FinalSafety(files) ==
    SelectSeq([j \in 1..Len(files) |-> [files[j] EXCEPT !.name = StripSeps(@)]],
              LAMBDA f : ~Blank(Last(Split(f.name, Seps))))

\* the entry of the synced folder shown as not yet uploaded
RootEntryPending(rootName) ==
    [name |-> rootName, contentType |-> "directory", syncState |-> "pending",
     isLocal |-> FALSE]

\* virtual root: the entry synthesized for the synced folder
RootEntry(rootName) ==
    [name |-> rootName, contentType |-> "directory", syncState |-> "synced",
     isLocal |-> FALSE]

\* the listing loadObjects passes to setObjects, given what gcp:listObjects
\* returned (gcsRes) and the local tree T
MergedListing(gcsRes, T, sync, cur) ==
    LET gcsFiles == IF gcsRes.success THEN gcsRes.data ELSE <<>>
        rootName == RootName(sync)
        relativePath == RelativePath(cur, rootName)
        localRes == listLocalFolder(T, sync, FullLocalPath(sync, relativePath))
        localItems == IF localRes.success THEN localRes.data ELSE <<>>
        merged == [j \in 1..Len(localItems) |->
                      MatchLocal(localItems[j], gcsFiles, relativePath, rootName)]
    IN  FinalSafety(
            IF sync # NoSync
            THEN IF cur = <<>>
                 THEN AddOthers(<<RootEntry(rootName)>>, gcsFiles, rootName)
                 ELSE AddCloudOnly(merged, gcsFiles, relativePath, rootName)
            ELSE CloudView(gcsFiles))

\* loadObjects(bucket, currentPrefix) run to its end with current path cur
loadObjects(cur) ==
    /\ gcsResult' = listObjects(bucket, authOK, currentPrefix)
    /\ objects' = MergedListing(gcsResult', localTree, lastSyncPath, cur)

InitMerge ==
    /\ bucket \in Buckets
    /\ authOK \in BOOLEAN
    /\ localTree \in LocalTrees
    /\ lastSyncPath \in SyncPaths
    /\ currentLocalPath = <<>>
    /\ gcsResult = listObjects(bucket, authOK, currentPrefix)
    /\ objects = MergedListing(gcsResult, localTree, lastSyncPath, <<>>)

\* handleFileClick on a directory entry, and the reload its effect triggers
OpenFolder(j) ==
    /\ UNCHANGED notMerge
    /\ j \in 1..Len(objects)
    /\ objects[j].contentType = "directory"
    /\ currentLocalPath = <<>> \/ Len(Split(currentLocalPath, {"/"})) < MaxDepth
    /\ currentLocalPath' =
          IF currentLocalPath # <<>>
          THEN CollapseSlashes(Slash(currentLocalPath, objects[j].name))
          ELSE objects[j].name
    /\ loadObjects(currentLocalPath')
    /\ UNCHANGED <<bucket, authOK, localTree, lastSyncPath>>

\* breadcrumb bar: setCurrentLocalPath of the first n segments ('' for "Raiz"),
\* and the reload its effect triggers
Breadcrumb(n) ==
    /\ UNCHANGED notMerge
    /\ lastSyncPath # NoSync
    /\ currentLocalPath # <<>>
    /\ LET segs == SelectSeq(Split(currentLocalPath, Seps), LAMBDA g : g # <<>>)
       IN  /\ n \in 0..Len(segs)
           /\ currentLocalPath' = Join(SubSeq(segs, 1, n))
    /\ loadObjects(currentLocalPath')
    /\ UNCHANGED <<bucket, authOK, localTree, lastSyncPath>>

\* the refresh button: loadObjects(bucket, currentPrefix)
Refresh ==
    /\ UNCHANGED notMerge
    /\ loadObjects(currentLocalPath)
    /\ UNCHANGED <<bucket, authOK, localTree, lastSyncPath, currentLocalPath>>

NextMerge ==
    \/ \E j \in 1..(MaxObjects + Cardinality(LocalUniverse) + 1) : OpenFolder(j)
    \/ \E n \in 0..MaxObjects : Breadcrumb(n)
    \/ Refresh

InitExplorer == InitSup /\ InitMerge /\ IdleEv /\ IdleAd /\ IdleEnv /\ IdleUi

SpecMerge == InitExplorer /\ [][NextMerge]_vars

(***************************************************************************)
(* Properties of the remote lister and the view merger.                    *)
(***************************************************************************)
\* the value of currentLocalPath that shows the folder holding local entry e
ContainingFolder(e) ==
    LET parts == Split(e.path, {"/"})
    IN  Join(<<RootName(lastSyncPath)>> \o SubSeq(parts, 1, Len(parts) - 1))

\* C4: round trip - a local file whose object exists at rootFolderName/path is
\* listed as synced when the explorer shows its folder (the listing call
\* itself having succeeded).
RoundTripSynced ==
    (lastSyncPath # NoSync /\ authOK) =>
        \A e \in localTree :
            (/\ ~e.dir
             /\ Slash(RootName(lastSyncPath), e.path) \in bucket
             /\ currentLocalPath = ContainingFolder(e))
            => \E j \in 1..Len(objects) :
                  /\ objects[j].name = LocalItem(e).name
                  /\ objects[j].syncState = "synced"

\* C5: no two entries of the listing shown have the same display name
\* (trailing separators stripped).
UniqueDisplayNames ==
    \A i, j \in 1..Len(objects) :
        i # j => StripSeps(objects[i].name) # StripSeps(objects[j].name)

\* C6: a listObjects call that failed returns something else than a
\* successful listing of an empty bucket does.
ListFailureDistinguishable ==
    ~authOK => gcsResult # listObjects({}, TRUE, currentPrefix)

(***************************************************************************)
(* Properties of the sync supervisor.                                      *)
(***************************************************************************)

\* C1: restart bound - the restart timer of one session (one startSync call)
\* never launches more than MAX_RESTARTS times.
RestartBound == \A s \in Sessions : restarts[s] <= MAX_RESTARTS

\* C2: at most one sync process launched by the supervisor is alive.
SingleSyncProcess == Cardinality({s \in Sessions : Alive(s)}) <= 1

\* C3: once stopSync has returned, and until the next startSync, no sync
\* process is running (none is left alive and none is launched).
StopLeavesIdle ==
    lastCall \in {"stopTrue", "stopFalse"} => \A s \in Sessions : ~Alive(s)

\* C9: a session that performed all its restarts and crashed again (terminal
\* Error) has had that failure delivered to the caller: a failed startSync
\* result or a log line of the crash.
TerminalErrorReported ==
    \A s \in Sessions :
        restarts[s] >= MAX_RESTARTS => terminal[s] # "silent"

\* the supervisor is idle: no process, no reference to one, no pending restart
SupervisorIdle ==
    /\ activeSyncProcess = NULL
    /\ \A s \in Sessions : ~Alive(s) /\ ~timer[s]

\* C10: stopSync called on an idle supervisor changes no state and returns
\* success.
StopSyncIdempotent ==
    [][(SupervisorIdle /\ StopSync) =>
          (lastCall' = "stopTrue" /\
           UNCHANGED <<activeSyncProcess, restartCount, procs, hasResolved, result,
                       timer, fallback, restarts, terminal>>)]_vars


(***************************************************************************)
(* GCPAdapter of the sync script: the object names it writes and deletes.  *)
(* sep is os.sep of the platform the script runs on.                       *)
(***************************************************************************)
\* the separators os.path recognises: '/' on POSIX, '/' and '\' on Windows
OsSeps(sep) == IF sep = "\\" THEN Seps ELSE {"/"}

\* os.path.basename(path)
OsBasename(path, sep) == Last(Split(path, OsSeps(sep)))

\* the name left as the platform wrote it
KeepSep(s, sep) == s

\* s.replace(os.sep, '/')
ReplaceSep(s, sep) == [i \in 1..Len(s) |-> IF s[i] = sep THEN "/" ELSE s[i]]

\* os.path.join(a, b) for a relative b
OsJoin(a, b, sep) == a \o <<sep>> \o b

RECURSIVE JoinSep(_, _)
JoinSep(segs, sep) ==
    IF Len(segs) = 0 THEN <<>>
    ELSE IF Len(segs) = 1 THEN segs[1]
    ELSE segs[1] \o <<sep>> \o JoinSep(Tail(segs), sep)

\* the path os.walk / the watcher gives for the file with segments segs
FilePath(root, segs, sep) == OsJoin(root, JoinSep(segs, sep), sep)

\* os.path.relpath(file_path, root_path) for a path below root_path
RelPath(file_path, root, sep) ==
    IF StartsWith(file_path, root) /\ Len(file_path) > Len(root)
       /\ file_path[Len(root) + 1] \in OsSeps(sep)
    THEN Substring(file_path, Len(root) + 1)
    ELSE file_path

\* upload_file: blob_name = f"{folder_name}/{rel_path}".replace(os.sep, '/')
UploadBlobName(root, file_path, sep) ==
    ReplaceSep(Slash(OsBasename(root, sep), RelPath(file_path, root, sep)), sep)

\* create_folder: final_path, folder_path given a trailing slash first
FolderBlobName(root, folder_path, sep) ==
    LET fp == IF folder_path # <<>> /\ Last(folder_path) = "/"
              THEN folder_path ELSE Append(folder_path, "/")
    IN  ReplaceSep(Slash(OsBasename(root, sep), fp), sep)

\* the name without the synced folder's name in front
DeleteBlobNameUnrooted(root, relative_path, sep) == ReplaceSep(relative_path, sep)

\* delete_object: blob_name
DeleteBlobName(root, relative_path, sep) ==
    ReplaceSep(Slash(OsBasename(root, sep), relative_path), sep)

\* the prefix without its closing slash
DeletePrefixBare(blob_name) == blob_name

\* delete_object: prefix = blob_name if blob_name.endswith('/') else blob_name + '/'
DeletePrefix(blob_name) ==
    IF blob_name # <<>> /\ Last(blob_name) = "/" THEN blob_name
    ELSE Append(blob_name, "/")

\* delete_object: the objects left in bucket B. stage is how far the call
\* got before an exception: 0 nothing deleted, 1 blob.delete() done, 2 all done
DeleteObject(B, root, relative_path, sep, stage) ==
    LET blob_name == DeleteBlobName(root, relative_path, sep)
        afterBlob == IF stage >= 1 THEN B \ {blob_name} ELSE B
        blobs_to_delete == {k \in afterBlob : StartsWith(k, DeletePrefix(blob_name))}
    IN  IF stage >= 2 THEN afterBlob \ blobs_to_delete ELSE afterBlob

\* blob.upload_from_filename / upload_from_string storing every call under a
\* new name
PutObjectKeepingOld(B, key) ==
    IF key \in B THEN B \cup {Append(key, "b")} ELSE B \cup {key}

\* blob.upload_from_filename / upload_from_string: the object of that name
\* is created or overwritten
PutObject(B, key) == B \cup {key}

kRootAB == <<"D", "/", "a", "b">>

\* object names a bucket may hold before the adapter is called
AdKeys == {kRootA, kRootAB, kRootS, kRootSA, kA}

\* relative paths, as segments, the watcher may report as deleted
DeleteUniverse == {<<kA>>, <<<<"s">>>>, <<<<"s">>, kA>>}

InitAd ==
    /\ bucket \in SUBSET AdKeys
    /\ authOK = TRUE
    /\ localTree \in LocalTrees
    /\ lastSyncPath = <<"/", "D">>
    /\ currentLocalPath = <<>>
    /\ gcsResult = [success |-> TRUE, data |-> <<>>, kind |-> "json"]
    /\ objects = <<>>
    /\ ossep \in Seps
    /\ lastOp = NoOp

\* the call is remembered with whether it changed the bucket and whether it
\* repeats the successful call before it (nth = 2)
Record(call) ==
    lastOp' = [op |-> call.op, segs |-> call.segs, path |-> call.path,
               key |-> call.key, done |-> call.done,
               changed |-> bucket' # bucket,
               nth |-> IF /\ lastOp.op = call.op /\ lastOp.segs = call.segs
                          /\ lastOp.done = call.done /\ call.done >= 1
                       THEN 2 ELSE 1]

\* adapter.upload_file(bucket_name, full_path) for a file of the tree;
\* done = 1 when the transfer succeeded
AdUpload(e, done) ==
    /\ UNCHANGED notAd
    /\ e \in localTree /\ ~e.dir
    /\ LET segs == Split(e.path, {"/"})
           file_path == FilePath(lastSyncPath, segs, ossep)
           blob_name == UploadBlobName(lastSyncPath, file_path, ossep)
       IN  /\ bucket' = IF done = 1 THEN PutObject(bucket, blob_name) ELSE bucket
           /\ Record([op |-> "upload", segs |-> segs, path |-> file_path,
                      key |-> blob_name, done |-> done])
    /\ UNCHANGED ossep

\* adapter.create_folder(bucket_name, rel_dir_path) for the root ("") or a
\* directory of the tree
AdCreateFolder(segs, done) ==
    /\ UNCHANGED notAd
    /\ segs = <<>> \/ [path |-> Join(segs), dir |-> TRUE] \in localTree
    /\ LET folder_path == JoinSep(segs, ossep)
           final_path == FolderBlobName(lastSyncPath, folder_path, ossep)
       IN  /\ bucket' = IF done = 1 THEN PutObject(bucket, final_path) ELSE bucket
           /\ Record([op |-> "create_folder", segs |-> segs, path |-> folder_path,
                      key |-> final_path, done |-> done])
    /\ UNCHANGED ossep

\* adapter.delete_object(bucket_name, relative_path); done is the stage the
\* call reached (2: no exception)
AdDelete(segs, done) ==
    /\ UNCHANGED notAd
    /\ LET relative_path == JoinSep(segs, ossep)
       IN  /\ bucket' = DeleteObject(bucket, lastSyncPath, relative_path, ossep, done)
           /\ Record([op |-> "delete", segs |-> segs, path |-> relative_path,
                      key |-> DeleteBlobName(lastSyncPath, relative_path, ossep),
                      done |-> done])
    /\ UNCHANGED ossep

NextAd ==
    \/ \E e \in LocalUniverse, done \in {0, 1} : AdUpload(e, done)
    \/ \E segs \in {<<>>, <<<<"s">>>>}, done \in {0, 1} : AdCreateFolder(segs, done)
    \/ \E segs \in DeleteUniverse, done \in {0, 1, 2} : AdDelete(segs, done)

InitAdapter == InitSup /\ IdleEv /\ InitAd /\ IdleEnv /\ IdleUi

SpecAdapter == InitAdapter /\ [][NextAd]_vars

\* the folder the sync script of the event stream is started on, POSIX
SyncRoot == <<"/", "D">>
PosixSep == "/"

(***************************************************************************)
(* The sync script's event stream: the python process prints one JSON line *)
(* per event, the stdout 'data' handler of startBackgroundPython parses    *)
(* the lines of each chunk and forwards the events, the page keeps the     *)
(* last status per event.file.                                             *)
(***************************************************************************)
MaxLines == 7

\* relative paths of the files that may exist under the synced folder
EvPaths == {kA, kSA, kB}

\* os.path.basename
Basename(file) == Last(Split(file, {"/"}))

EvKeys == {Basename(p) : p \in EvPaths}

\* log_event(file, status): the line it prints (message left out)
log_event(file, status) ==
    [json |-> TRUE, type |-> "sync_event", file |-> Basename(file),
     full_path |-> file, status |-> status]

\* the file-less progress events of scan_and_upload
ScanEvent(status) ==
    [json |-> TRUE, type |-> "sync_event", file |-> <<>>,
     full_path |-> <<>>, status |-> status]

\* print(json.dumps({'success': True, ...}))
SuccessLine ==
    [json |-> TRUE, type |-> "", file |-> <<>>, full_path |-> <<>>,
     status |-> "success"]

\* print(f"[WATCHER] {msg}"): a line that is not JSON
WatcherLog ==
    [json |-> FALSE, type |-> "", file |-> <<>>, full_path |-> <<>>,
     status |-> "log"]

\* watcher_callback(msg), msg = "Detected ...: <filename>" when detected
watcher_callback(detected, filename) ==
    (IF detected THEN <<log_event(filename, "pending")>> ELSE <<>>)
        \o <<WatcherLog>>

InitEv ==
    /\ fsFiles \in SUBSET EvPaths
    /\ pyPhase = "scan"
    /\ toScan = fsFiles
    /\ cyc = [p \in EvPaths |-> "idle"]
    /\ emitted = <<SuccessLine, ScanEvent("scanning")>>
    /\ consumed = 0
    /\ delivered = <<>>
    /\ handled = 0
    /\ syncStatuses = [k \in EvKeys |-> "none"]
    /\ since = [p \in EvPaths |-> "none"]

Emit(lines) ==
    /\ Len(emitted) + Len(lines) <= MaxLines
    /\ emitted' = emitted \o lines

\* scan_and_upload: adapter.upload_file for the next file of os.walk; the
\* "uploading" event is printed before the transfer
ScanFile(p) ==
    /\ UNCHANGED notEv
    /\ pyPhase = "scan"
    /\ p \in toScan
    /\ \A q \in EvPaths : cyc[q] = "idle"
    /\ Emit(<<log_event(p, "uploading")>>)
    /\ toScan' = toScan \ {p}
    /\ cyc' = [cyc EXCEPT ![p] = "uploading"]
    /\ UNCHANGED <<fsFiles, pyPhase, consumed, delivered, handled,
                   syncStatuses, since>>

\* upload_file letting a failed transfer escape as an exception
upload_file_raising(p, ok) ==
    [lines |-> IF ok THEN <<log_event(p, "synced")>> ELSE <<>>,
     written |-> IF ok THEN {UploadBlobName(SyncRoot, FilePath(SyncRoot, <<p>>, PosixSep), PosixSep)}
                 ELSE {},
     raised |-> ~ok]

\* upload_file from blob.upload_from_filename on: the object is written and
\* "synced" printed, or the except branch prints "error"; nothing is raised
upload_file(p, ok) ==
    [lines |-> <<log_event(p, IF ok THEN "synced" ELSE "error")>>,
     written |-> IF ok THEN {UploadBlobName(SyncRoot, FilePath(SyncRoot, <<p>>, PosixSep), PosixSep)}
                 ELSE {},
     raised |-> FALSE]

\* the rest of an upload started by ScanFile or UploadStart; an exception
\* raised inside the scan loop ends the loop (except branch of
\* scan_and_upload)
UploadEnd(p, ok) ==
    /\ UNCHANGED notEvBucket
    /\ cyc[p] = "uploading"
    /\ LET r == upload_file(p, ok)
       IN  /\ Emit(r.lines)
           /\ bucket' = bucket \cup r.written
           /\ toScan' = IF r.raised /\ pyPhase = "scan" THEN {} ELSE toScan
    /\ cyc' = [cyc EXCEPT ![p] = "idle"]
    /\ UNCHANGED <<fsFiles, pyPhase, consumed, delivered, handled,
                   syncStatuses, since>>

\* end of scan_and_upload, then RealTimeSync(...).start()
ScanComplete ==
    /\ UNCHANGED notEv
    /\ pyPhase = "scan"
    /\ toScan = {}
    /\ \A q \in EvPaths : cyc[q] = "idle"
    /\ Emit(<<ScanEvent("scan_complete")>>)
    /\ pyPhase' = "watch"
    /\ UNCHANGED <<fsFiles, toScan, cyc, consumed, delivered, handled,
                   syncStatuses, since>>

\* a file appears in the watched folder: the watcher reports it to the
\* callback at once
FsCreate(p) ==
    /\ UNCHANGED notEv
    /\ pyPhase = "watch"
    /\ p \notin fsFiles
    /\ cyc[p] = "idle"
    /\ Emit(watcher_callback(TRUE, p))
    /\ fsFiles' = fsFiles \cup {p}
    /\ cyc' = [cyc EXCEPT ![p] = "detected"]
    /\ since' = [since EXCEPT ![p] = IF @ = "deleted" THEN "recreated" ELSE @]
    /\ UNCHANGED <<pyPhase, toScan, consumed, delivered, handled,
                   syncStatuses>>

\* a watched file is rewritten
FsModify(p) ==
    /\ UNCHANGED notEv
    /\ pyPhase = "watch"
    /\ p \in fsFiles
    /\ cyc[p] = "idle"
    /\ Emit(watcher_callback(TRUE, p))
    /\ cyc' = [cyc EXCEPT ![p] = "detected"]
    /\ UNCHANGED <<fsFiles, pyPhase, toScan, consumed, delivered, handled,
                   syncStatuses, since>>

\* a watched file is removed: the watcher calls adapter.delete_object
FsDelete(p) ==
    /\ UNCHANGED notEv
    /\ pyPhase = "watch"
    /\ p \in fsFiles
    /\ cyc[p] = "idle"
    /\ fsFiles' = fsFiles \ {p}
    /\ cyc' = [cyc EXCEPT ![p] = "deleting"]
    /\ since' = [since EXCEPT ![p] = "deleted"]
    /\ UNCHANGED <<pyPhase, toScan, emitted, consumed, delivered, handled,
                   syncStatuses>>

\* the watcher's upload of a detected file: upload_file up to the transfer
UploadStart(p) ==
    /\ UNCHANGED notEv
    /\ cyc[p] = "detected"
    /\ Emit(<<log_event(p, "uploading")>>)
    /\ cyc' = [cyc EXCEPT ![p] = "uploading"]
    /\ UNCHANGED <<fsFiles, pyPhase, toScan, consumed, delivered, handled,
                   syncStatuses, since>>

\* delete_object: "deleted", or "error" from the except branch
DeleteEnd(p, ok) ==
    /\ UNCHANGED notEvBucket
    /\ cyc[p] = "deleting"
    /\ Emit(<<log_event(p, IF ok THEN "deleted" ELSE "error")>>)
    /\ \E stage \in (IF ok THEN {2} ELSE {0, 1}) :
          bucket' = DeleteObject(bucket, SyncRoot, p, PosixSep, stage)
    /\ cyc' = [cyc EXCEPT ![p] = "idle"]
    /\ UNCHANGED <<fsFiles, pyPhase, toScan, consumed, delivered, handled,
                   syncStatuses, since>>

Reverse(q) == [i \in 1..Len(q) |-> q[Len(q) + 1 - i]]

IsJson(line) == line.json

\* the same handler visiting the lines of a chunk last to first
ParseChunkReversed(pieces) == Reverse(SelectSeq(pieces, IsJson))

\* the stdout 'data' handler: str.split('\n').filter(...).forEach(line =>
\* ...): the lines that start with '{' and end with '}' are parsed and
\* passed to onEvent in the order of the chunk, the others go to onLog
ParseChunk(pieces) == SelectSeq(pieces, IsJson)

\* the head of a line whose end is in a later chunk: not a JSON object
Fragment(line) == [line EXCEPT !.json = FALSE]

\* one 'data' event: a chunk of n whole lines, and when cut the beginning
\* of the next line, whose rest opens the following chunk
DataChunk(n, cut) ==
    /\ UNCHANGED notEv
    /\ n + (IF cut THEN 1 ELSE 0) >= 1
    /\ consumed + n + (IF cut THEN 1 ELSE 0) <= Len(emitted)
    /\ LET whole == SubSeq(emitted, consumed + 1, consumed + n)
           chunk == IF cut THEN Append(whole, Fragment(emitted[consumed + n + 1]))
                           ELSE whole
       IN  delivered' = delivered \o ParseChunk(chunk)
    /\ consumed' = consumed + n + (IF cut THEN 1 ELSE 0)
    /\ UNCHANGED <<fsFiles, pyPhase, toScan, cyc, emitted, handled,
                   syncStatuses, since>>

\* the same update forgetting a file that is reported as deleted
setSyncStatusesForgetting(prev, event) ==
    IF event.type = "sync_event" /\ event.file # <<>>
    THEN [prev EXCEPT ![event.file] =
             IF event.status = "deleted" THEN "none" ELSE event.status]
    ELSE prev

\* setSyncStatuses(prev => ({ ...prev, [event.file]: event.status })) for a
\* sync event that names a file
setSyncStatuses(prev, event) ==
    IF event.type = "sync_event" /\ event.file # <<>>
    THEN [prev EXCEPT ![event.file] = event.status]
    ELSE prev

\* the page's onSyncEvent subscription, one forwarded event at a time
OnSyncEvent ==
    /\ UNCHANGED notEv
    /\ handled < Len(delivered)
    /\ LET event == delivered[handled + 1]
       IN  /\ syncStatuses' = setSyncStatuses(syncStatuses, event)
           /\ since' =
                 IF event.status = "synced" /\ event.full_path \in EvPaths
                 THEN [since EXCEPT ![event.full_path] = "none"]
                 ELSE since
    /\ handled' = handled + 1
    /\ UNCHANGED <<fsFiles, pyPhase, toScan, cyc, emitted, consumed, delivered>>

NextEv ==
    \/ \E p \in EvPaths : ScanFile(p)
    \/ \E p \in EvPaths, ok \in BOOLEAN : UploadEnd(p, ok)
    \/ ScanComplete
    \/ \E p \in EvPaths : FsCreate(p)
    \/ \E p \in EvPaths : FsModify(p)
    \/ \E p \in EvPaths : FsDelete(p)
    \/ \E p \in EvPaths : UploadStart(p)
    \/ \E p \in EvPaths, ok \in BOOLEAN : DeleteEnd(p, ok)
    \/ \E n \in 0..MaxLines, cut \in BOOLEAN : DataChunk(n, cut)
    \/ OnSyncEvent

\* the explorer left aside, the bucket holding the placeholder of the root
\* folder that scan_and_upload creates first: create_folder(bucket_name, "")
ScanStartedBucket ==
    /\ bucket = {FolderBlobName(SyncRoot, <<>>, PosixSep)}
    /\ authOK = TRUE
    /\ localTree = {}
    /\ lastSyncPath = <<>>
    /\ currentLocalPath = <<>>
    /\ gcsResult = [success |-> TRUE, data |-> <<>>, kind |-> "json"]
    /\ objects = <<>>

InitEvents == InitSup /\ ScanStartedBucket /\ InitEv /\ IdleAd /\ IdleEnv /\ IdleUi

SpecEvents == InitEvents /\ [][NextEv]_vars

(***************************************************************************)
(* The same script with a folder that changes while scan_and_upload runs;  *)
(* the reader of its stdout is left aside.                                 *)
(***************************************************************************)
\* a file appears in the folder during the scan. os.walk has listed the root
\* directory already; it yields the file only when the file is in a
\* sub-directory it has not listed yet. The watcher is started after the
\* scan and reports the changes that happen from then on.
FsCreateInScan(p) ==
    /\ UNCHANGED notEv
    /\ pyPhase = "scan"
    /\ p \notin fsFiles
    /\ fsFiles' = fsFiles \cup {p}
    /\ \E seen \in (IF "/" \in Range(p) THEN BOOLEAN ELSE {FALSE}) :
          toScan' = IF seen THEN toScan \cup {p} ELSE toScan
    /\ UNCHANGED <<pyPhase, cyc, emitted, consumed, delivered, handled,
                   syncStatuses, since>>

NextScan ==
    \/ \E p \in EvPaths : ScanFile(p)
    \/ \E p \in EvPaths, ok \in BOOLEAN : UploadEnd(p, ok)
    \/ ScanComplete
    \/ \E p \in EvPaths : FsCreateInScan(p)
    \/ \E p \in EvPaths : FsCreate(p)
    \/ \E p \in EvPaths : FsModify(p)
    \/ \E p \in EvPaths : FsDelete(p)
    \/ \E p \in EvPaths : UploadStart(p)
    \/ \E p \in EvPaths, ok \in BOOLEAN : DeleteEnd(p, ok)

SpecScan == InitEvents /\ [][NextScan]_vars

(***************************************************************************)
(* The explorer page with its calls in flight.  loadObjects is started by  *)
(* a handler or by the auto-refresh effect and ends later; the calls in    *)
(* flight end in any order, and each one calls setObjects when it ends.    *)
(***************************************************************************)
\* calls of the page that may be in flight at once
MaxCalls == 2

\* a loadObjects call in flight: lastSyncPath and currentLocalPath are those
\* of the render whose closure made the call
LoadCall(sync, cur) == [fn |-> "loadObjects", sync |-> sync, cur |-> cur]

\* handleStartSync awaiting gcp.startSync(dirRes.data, bucket)
StartCall(dir) == [fn |-> "startSync", sync |-> dir, cur |-> <<>>]

credVars == <<activeCredentialPath, lastCredentialPath>>

\* loadObjects reaching its end: gcp:listObjects, gcp:listLocalFolder, the
\* merge and setObjects(finalFiles); nothing tells a call that a later one
\* was started
LoadDone(c) ==
    /\ UNCHANGED <<supVars, evVars, adVars, envVars, opResult, credVars>>
    /\ c \in calls
    /\ c.fn = "loadObjects"
    /\ gcsResult' = listObjects(bucket, authOK, currentPrefix)
    /\ objects' = MergedListing(gcsResult', localTree, c.sync, c.cur)
    /\ calls' = calls \ {c}
    /\ UNCHANGED <<bucket, authOK, localTree, lastSyncPath, currentLocalPath>>

\* handleFileClick on a directory entry: setCurrentLocalPath(newPath); the
\* effect on [bucket, currentPrefix, lastSyncPath, currentLocalPath] starts
\* loadObjects
ClickFolder(j) ==
    /\ UNCHANGED <<supVars, evVars, adVars, envVars, opResult, credVars>>
    /\ j \in 1..Len(objects)
    /\ objects[j].contentType = "directory"
    /\ currentLocalPath = <<>> \/ Len(Split(currentLocalPath, {"/"})) < MaxDepth
    /\ currentLocalPath' =
          IF currentLocalPath # <<>>
          THEN CollapseSlashes(Slash(currentLocalPath, objects[j].name))
          ELSE objects[j].name
    /\ calls' = calls \cup {LoadCall(lastSyncPath, currentLocalPath')}
    /\ Cardinality(calls') <= MaxCalls
    /\ UNCHANGED <<bucket, authOK, localTree, lastSyncPath, gcsResult, objects>>

\* breadcrumb bar: setCurrentLocalPath of the first n segments; the effect
\* starts loadObjects
ClickBreadcrumb(n) ==
    /\ UNCHANGED <<supVars, evVars, adVars, envVars, opResult, credVars>>
    /\ lastSyncPath # NoSync
    /\ currentLocalPath # <<>>
    /\ LET segs == SelectSeq(Split(currentLocalPath, Seps), LAMBDA g : g # <<>>)
       IN  /\ n \in 0..(Len(segs) - 1)
           /\ currentLocalPath' = Join(SubSeq(segs, 1, n))
    /\ calls' = calls \cup {LoadCall(lastSyncPath, currentLocalPath')}
    /\ Cardinality(calls') <= MaxCalls
    /\ UNCHANGED <<bucket, authOK, localTree, lastSyncPath, gcsResult, objects>>

\* stdout of the python script of gcp:deleteObject: delete_recursive catches
\* every exception and prints {'success': False, ...}
DeleteObjectScript(ok, obj_name) ==
    IF ok
    THEN <<[json |-> FALSE, val |-> <<>>], [json |-> TRUE, val |-> [success |-> TRUE]]>>
    ELSE <<[json |-> FALSE, val |-> <<>>], [json |-> TRUE, val |-> [success |-> FALSE]]>>

\* the bucket after delete_recursive: blob(obj_name).delete(), then
\* delete_blobs(list_blobs(prefix = obj_name + '/'))
DeleteRecursive(B, ok, obj_name) ==
    LET prefix == IF Last(obj_name) = "/" THEN obj_name ELSE obj_name \o <<"/">>
    IN  IF ok THEN {k \in B : k # obj_name /\ ~StartsWith(k, prefix)} ELSE B

\* ipcMain.handle('gcp:deleteObject'): the script ends with exit code 0
deleteObject(ok, objectName) == runPythonCode(0, DeleteObjectScript(ok, objectName))

\* lastSyncPath?.split(/[/\\]/).pop() || ''
SelectedRootName == IF lastSyncPath = NoSync THEN <<>> ELSE Last(Split(lastSyncPath, Seps))

\* handleDeleteSelected with the entry j selected (the confirmation given when
\* it is the synced root): handleStopSync first for the synced root, the
\* optimistic setObjects, gcp.deleteObject(bucket, name) and the final
\* loadObjects of the handler's own closure
DeleteSelected(j) ==
    /\ UNCHANGED <<supVars, evVars, adVars, envVars, credVars>>
    /\ j \in 1..Len(objects)
    /\ LET name == objects[j].name
           isDeletingSyncRoot == name = SelectedRootName /\ currentLocalPath = <<>>
           res == deleteObject(authOK, name)
       IN  /\ lastSyncPath' = IF isDeletingSyncRoot THEN NoSync ELSE lastSyncPath
           /\ currentLocalPath' = IF isDeletingSyncRoot THEN <<>> ELSE currentLocalPath
           /\ objects' = SelectSeq(objects, LAMBDA obj : obj.name # name)
           /\ bucket' = DeleteRecursive(bucket, authOK, name)
           /\ opResult' = [op |-> "deleteObject", name |-> name, stored |-> authOK,
                           success |-> res.success]
           /\ calls' = calls \cup {LoadCall(lastSyncPath, currentLocalPath)}
                             \cup (IF isDeletingSyncRoot
                                   THEN {LoadCall(NoSync, <<>>)} ELSE {})
    /\ Cardinality(calls') <= MaxCalls
    /\ UNCHANGED <<authOK, localTree, gcsResult>>

\* a service-account file the object store accepts, and one it refuses
GoodCred == <<"g">>
BadCred == <<"b">>
Creds == {GoodCred, BadCred}

\* stdout of the python script of gcp:authenticate
AuthenticateScript(ok) == <<[json |-> TRUE, val |-> [authenticated |-> ok]]>>

\* ipcMain.handle('gcp:authenticate'): activeCredentialPath = credPath and
\* the session file are written first, then the script tries the credential
Authenticate(credPath) ==
    /\ UNCHANGED <<supVars, evVars, adVars, envVars>>
    /\ activeCredentialPath' = credPath
    /\ lastCredentialPath' = credPath
    /\ authOK' = (credPath = GoodCred)
    /\ LET res == runPythonCode(0, AuthenticateScript(authOK'))
       IN  opResult' = [op |-> "authenticate", name |-> credPath,
                        stored |-> res.data.authenticated, success |-> res.success]
    /\ UNCHANGED <<bucket, localTree, lastSyncPath, currentLocalPath, gcsResult,
                   objects, calls>>

\* the keys of the explorer with calls in flight
NavKeys == {kRootA, kA, kSA}

\* the synced folder empty, or holding a, s and s/a
NavTrees == {{}, LocalUniverse}

InitPage ==
    /\ bucket \in SUBSET NavKeys
    /\ activeCredentialPath \in Creds
    /\ lastCredentialPath = activeCredentialPath
    /\ authOK = (activeCredentialPath = GoodCred)
    /\ localTree \in NavTrees
    /\ lastSyncPath \in SyncPaths
    /\ currentLocalPath = <<>>
    /\ gcsResult = listObjects(bucket, authOK, currentPrefix)
    /\ objects = MergedListing(gcsResult, localTree, lastSyncPath, <<>>)
    /\ calls = {}
    /\ opResult = NoResult

InitNavigation == InitSup /\ InitPage /\ IdleEv /\ IdleAd /\ IdleEnv

ObjectSlots == 1..(MaxObjects + Cardinality(LocalUniverse) + 1)

\* navigation alone
NextNav ==
    \/ \E j \in ObjectSlots : ClickFolder(j)
    \/ \E n \in 0..MaxDepth : ClickBreadcrumb(n)
    \/ \E c \in calls : LoadDone(c)

SpecNav == InitNavigation /\ [][NextNav]_vars

\* navigation, deletion and authentication
NextPage ==
    \/ \E j \in ObjectSlots : ClickFolder(j)
    \/ \E n \in 0..MaxDepth : ClickBreadcrumb(n)
    \/ \E c \in calls : LoadDone(c)
    \/ \E j \in ObjectSlots : DeleteSelected(j)
    \/ \E credPath \in Creds : Authenticate(credPath)

SpecPage == InitNavigation /\ [][NextPage]_vars

(***************************************************************************)
(* The sync buttons of the page over the supervisor.                       *)
(***************************************************************************)
\* handleStartSync up to its await: gcp.startSync(dirRes.data, bucket), the
\* button being disabled while actionLoading
HandleStartSync(s) ==
    /\ UNCHANGED <<mergeVars, evVars, adVars, envVars, opResult, credVars>>
    /\ StartCall(SyncRoot) \notin calls
    /\ startBackgroundPython(s)
    /\ calls' = calls \cup {StartCall(SyncRoot)}

\* handleStartSync after its await: setLastSyncPath(dirRes.data) and
\* loadObjects on success (the effect starts loadObjects too), a toast otherwise
StartSyncReturned(s) ==
    /\ UNCHANGED <<supVars, evVars, adVars, envVars, opResult, credVars>>
    /\ StartCall(SyncRoot) \in calls
    /\ s = current
    /\ result[s] # "pending"
    /\ IF result[s] = "success"
       THEN /\ lastSyncPath' = SyncRoot
            /\ calls' = (calls \ {StartCall(SyncRoot)})
                            \cup {LoadCall(lastSyncPath, currentLocalPath),
                                  LoadCall(SyncRoot, currentLocalPath)}
       ELSE /\ calls' = calls \ {StartCall(SyncRoot)}
            /\ UNCHANGED lastSyncPath
    /\ UNCHANGED <<bucket, authOK, localTree, currentLocalPath, gcsResult, objects>>

\* handleStopSync: setLastSyncPath(null), setCurrentLocalPath(''),
\* gcp.saveSession and loadObjects (the effect starts loadObjects too);
\* gcp.stopSync is not called
HandleStopSync ==
    /\ UNCHANGED <<supVars, evVars, adVars, envVars, opResult, credVars>>
    /\ lastSyncPath # NoSync
    /\ StartCall(SyncRoot) \notin calls
    /\ lastSyncPath' = NoSync
    /\ currentLocalPath' = <<>>
    /\ calls' = calls \cup {LoadCall(lastSyncPath, currentLocalPath),
                            LoadCall(NoSync, <<>>)}
    /\ UNCHANGED <<bucket, authOK, localTree, gcsResult, objects>>

NextPanel ==
    \/ HandleStartSync(1)
    \/ StartSyncReturned(1)
    \/ HandleStopSync
    \/ \E c \in calls : LoadDone(c)
    \/ ProcExit(1, 0)
    \/ ProcExit(1, CRASHED)
    \/ StdoutSuccess(1)
    \/ StderrData(1)
    \/ OnClose(1)
    \/ RestartTimer(1)
    \/ FallbackTimer(1)

SpecPanel == Init /\ [][NextPanel]_vars

(***************************************************************************)
(* Properties of the event stream and the status tracker.                  *)
(***************************************************************************)
\* the events of one file, by full_path
OfFile(q, p) == SelectSeq(q, LAMBDA e : e.json /\ e.full_path = p)

Statuses(q) == [i \in 1..Len(q) |-> q[i].status]

RECURSIVE IsSubseq(_, _)
IsSubseq(d, e) ==
    IF d = <<>> THEN TRUE
    ELSE IF e = <<>> THEN FALSE
    ELSE IF Head(d) = Head(e) THEN IsSubseq(Tail(d), Tail(e))
    ELSE IsSubseq(d, Tail(e))

\* pending is followed by uploading, uploading by synced or error
StagesInOrder(q) ==
    \A i \in 1..(Len(q) - 1) :
        /\ q[i].status = "pending" => q[i + 1].status = "uploading"
        /\ q[i].status = "uploading" => q[i + 1].status \in {"synced", "error"}

\* C7: a tracked status goes from synced to pending only when a file of that
\* name was deleted and created again since it became synced.
SyncedToPendingOnlyOnRecreate ==
    [][\A k \in EvKeys :
          (syncStatuses[k] = "synced" /\ syncStatuses'[k] = "pending")
          => \E p \in EvPaths : Basename(p) = k /\ since[p] = "recreated"]_vars

\* C8: the events of a file are printed in the order pending, uploading, then
\* synced or error, and the events the caller receives for a file are in the
\* order they were printed.
EventsInEmissionOrder ==
    \A p \in EvPaths :
        /\ StagesInOrder(OfFile(emitted, p))
        /\ IsSubseq(OfFile(delivered, p), OfFile(emitted, p))

\* a file created while watching whose three events reached the caller and
\* the tracker
CreatedFileEventsReceived ==
    \E p \in EvPaths :
        /\ Statuses(OfFile(delivered, p)) = <<"pending", "uploading", "synced">>
        /\ handled = Len(delivered)
        /\ syncStatuses[Basename(p)] = "synced"

\* the files whose upload the script has started
Attempted == {p \in EvPaths : log_event(p, "uploading") \in Range(emitted)}

\* C11: during the initial scan a failed upload drops no file: every file of
\* the tree is either uploaded already (or marked error) or still to come,
\* and the scan ends only when none is left.
ScanSurvivesFailedUpload ==
    pyPhase = "scan" => (toScan \cup Attempted) = fsFiles

\* the scan went on after an error: a later file was uploaded, the scan is
\* over and the script is about to watch
ScanWentOnAfterError ==
    /\ pyPhase = "scan" /\ toScan = {}
    /\ \E i, j \in 1..Len(emitted) :
          /\ i < j
          /\ emitted[i].status = "error"
          /\ emitted[j].status = "synced"
          /\ emitted[i].full_path # emitted[j].full_path

(***************************************************************************)
(* Properties of the GCPAdapter.                                           *)
(***************************************************************************)
\* rootFolderName = basename(localPath)
RootFolderName == OsBasename(lastSyncPath, ossep)

\* C12: every object name written by upload_file or create_folder begins
\* with rootFolderName + "/", nothing else is written, and a file with
\* relative path r (segments joined by "/") is written to rootFolderName/r.
KeysUnderRootFolder ==
    [][lastOp'.op \in {"upload", "create_folder"} =>
          /\ (bucket' \ bucket) \subseteq {lastOp'.key}
          /\ bucket \subseteq bucket'
          /\ lastOp'.done = 1 =>
                /\ lastOp'.key \in bucket'
                /\ StartsWith(lastOp'.key, Append(RootFolderName, "/"))
                /\ lastOp'.op = "upload" =>
                      lastOp'.key = Slash(RootFolderName, Join(lastOp'.segs))]_vars

\* a file of a sub-directory uploaded on a platform whose separator is '\'
NestedFileUploadedOnWindows ==
    /\ lastOp.op = "upload" /\ lastOp.done = 1 /\ lastOp.changed
    /\ ossep = "\\"
    /\ Len(lastOp.segs) = 2
    /\ lastOp.key \in bucket

\* the objects a deleted event for the relative path of segments segs is to
\* remove from bucket B
Doomed(B, segs) ==
    {k \in B : \/ k = Slash(RootFolderName, Join(segs))
               \/ StartsWith(k, Append(Slash(RootFolderName, Join(segs)), "/"))}

\* C13: delete_object for relative path r removes the object rootFolderName/r
\* and the objects below rootFolderName/r/ and nothing else; when the call
\* fails on the way what it removed is among those.
DeleteRemovesExactlySubtree ==
    [][lastOp'.op = "delete" =>
          /\ bucket' \subseteq bucket
          /\ (bucket \ bucket') \subseteq Doomed(bucket, lastOp'.segs)
          /\ lastOp'.done = 2 => bucket' = bucket \ Doomed(bucket, lastOp'.segs)]_vars

\* "a" was deleted and removed while "ab", which only shares the string
\* prefix, is still there
SiblingKeptByDelete ==
    /\ lastOp.op = "delete" /\ lastOp.done = 2 /\ lastOp.changed
    /\ lastOp.segs = <<kA>>
    /\ kRootA \notin bucket
    /\ kRootAB \in bucket

\* how many entries the merged listing of the directory of the file with
\* segments segs has under the file's name
TimesInView(segs) ==
    LET e == [path |-> Join(segs), dir |-> FALSE]
        listing == MergedListing(listObjects(bucket, TRUE, currentPrefix),
                                 localTree, lastSyncPath, ContainingFolder(e))
    IN  Cardinality({j \in 1..Len(listing) : listing[j].name = Last(segs)})

BadCredentialsAreFatal ==
    ~credsOK =>
        \A s \in Sessions :
            /\ result[s] # "success"
            /\ (procs[s].status = "closed" /\ procs[s].code = 0) => ~timer[s]

\* C15: for a localPath that does not exist startSync does not resolve with
\* success and the script never scans or watches.
MissingPathRejected ==
    ~pathOK =>
        \A s \in Sessions :
            /\ result[s] # "success"
            /\ procs[s].stage \notin {"scan", "watch"}

\* C19: a startSync call begins its session with restartCount = 0.
SessionStartsWithFullBudget ==
    [][\A s \in Sessions :
          (/\ procs[s].status \in {"unborn", "closed"}
           /\ ~timer[s]
           /\ procs'[s].status = "running")
          => restartCount' = 0]_vars

\* the final path segment of a listed name, trailing separators stripped
DisplayName(name) == Last(Split(StripSeps(name), Seps))

\* C16: no entry of the listing shown has an empty or whitespace-only
\* display name.
NoBlankDisplayName ==
    \A j \in 1..Len(objects) : ~Blank(DisplayName(objects[j].name))

\* the remote listing held a name made of separators or blanks only, and the
\* listing shown is what is left of it
BlankNameFilteredOut ==
    /\ gcsResult.success
    /\ \E j \in 1..Len(gcsResult.data) :
          Blank(DisplayName(gcsResult.data[j].name))
    /\ Len(objects) >= 1
    /\ Len(objects) < Len(gcsResult.data)

\* the printed events that carry a file
FileEvents == SelectSeq(emitted, LAMBDA e : e.type = "sync_event" /\ e.file # <<>>)

\* C17: the file field of an event is the file's path relative to the synced
\* root, and the events of two distinct files never carry the same file
\* value.
EventFileIsRelativePath ==
    /\ \A i \in 1..Len(FileEvents) : FileEvents[i].file = FileEvents[i].full_path
    /\ \A i, j \in 1..Len(FileEvents) :
          FileEvents[i].full_path # FileEvents[j].full_path
          => FileEvents[i].file # FileEvents[j].file

\* C20: the close of a crashed process, while restartCount < MAX_RESTARTS,
\* adds one to restartCount and sets the backoff timer; when the timer fires
\* the same script is spawned again from its beginning, and a script watches
\* only after it has scanned.
CrashRestartsFromScan ==
    [][\A s \in Sessions :
          /\ (/\ procs[s].status = "exited" /\ procs'[s].status = "closed"
              /\ procs[s].code # 0 /\ restartCount < MAX_RESTARTS)
             => (restartCount' = restartCount + 1 /\ timer'[s])
          /\ (timer[s] /\ ~timer'[s])
             => (/\ procs'[s].status = "running" /\ procs'[s].stage = "boot"
                 /\ activeSyncProcess' = s)
          /\ (procs'[s].stage = "watch" /\ procs[s].stage # "watch")
             => (procs[s].status = "running" /\ procs[s].stage = "scan")]_vars

\* a relaunched script has scanned again and watches
RelaunchedAndWatching ==
    \E s \in Sessions :
        /\ restarts[s] >= 1
        /\ restartCount >= 1
        /\ Alive(s)
        /\ procs[s].stage = "watch"

(***************************************************************************)
(* Properties of the view merger inside the synced tree and at the virtual *)
(* root.                                                                   *)
(***************************************************************************)
\* a remote object exists at rootFolderName/path (for a folder, its
\* placeholder rootFolderName/path/)
RemoteCounterpart(path) ==
    \E k \in bucket : StripSlash(k) = Slash(RootName(lastSyncPath), path)

\* C21: inside the synced tree a local entry is labelled synced exactly when
\* a remote object exists at rootFolderName/relativeSubPath/name, and pending
\* otherwise; an object of that name somewhere else does not count.
LabelledByRootedKey ==
    (lastSyncPath # NoSync /\ authOK) =>
        \A e \in localTree :
            currentLocalPath = ContainingFolder(e) =>
                \A j \in 1..Len(objects) :
                    (objects[j].isLocal /\ objects[j].name = LocalItem(e).name) =>
                        objects[j].syncState =
                            IF RemoteCounterpart(e.path) THEN "synced" ELSE "pending"

\* currentLocalPath is the synced root folder or a folder below it
InsideTree(cur) ==
    cur = RootName(lastSyncPath) \/ StartsWith(cur, Append(RootName(lastSyncPath), "/"))

\* the names of the files and folders that exist remotely directly under the
\* folder prefix
RemoteChildren(prefix) ==
    {Split(Substring(k, Len(prefix) + 1), {"/"})[1] :
        k \in {x \in bucket : StartsWith(x, Append(prefix, "/"))
                              /\ Len(x) > Len(prefix) + 1}}

\* the names of the local entries of the folder shown
LocalNames(cur) ==
    {LocalItem(e).name :
        e \in LocalChildren(localTree, RelativePath(cur, RootName(lastSyncPath)))}

\* C22: inside the synced tree every file or folder that exists remotely
\* directly under rootFolderName/relativeSubPath and not locally is listed,
\* with syncState synced.
CloudOnlyListed ==
    (lastSyncPath # NoSync /\ authOK /\ InsideTree(currentLocalPath)) =>
        \A n \in RemoteChildren(currentLocalPath) :
            (~Blank(n) /\ n \notin LocalNames(currentLocalPath)) =>
                \E j \in 1..Len(objects) :
                    objects[j].name = n /\ objects[j].syncState = "synced"

\* the first segment of every object name: the top-level files and folders
TopLevelNames == {Split(k, {"/"})[1] : k \in bucket}

HasEmptySegment(k) == \E i \in 1..(Len(k) - 1) : k[i] = "/" /\ k[i + 1] = "/"

\* C24: create_folder writes the placeholder of the directory with relative
\* path r at rootFolderName/r/, that of the root at rootFolderName/, and no
\* placeholder name contains "//".
PlaceholdersWellFormed ==
    [][(lastOp'.op = "create_folder" /\ lastOp'.done = 1) =>
          /\ lastOp'.key \in bucket'
          /\ lastOp'.key = Append(Join(<<RootFolderName>> \o lastOp'.segs), "/")
          /\ ~HasEmptySegment(lastOp'.key)]_vars

(***************************************************************************)
(* Properties of the processing of watcher events.                         *)
(***************************************************************************)
\* the object name upload_file gives the file with relative path p
KeyOf(p) == UploadBlobName(SyncRoot, FilePath(SyncRoot, <<p>>, PosixSep), PosixSep)

\* the status of the last event printed for the file, "none" without one
LastStatus(p) ==
    IF OfFile(emitted, p) = <<>> THEN "none" ELSE Last(OfFile(emitted, p)).status

Delivers(s) ==
    /\ procs[s].piped /\ ~procs'[s].piped
    /\ procs'[s].status = procs[s].status

\* C25: once stopSync has returned, no event and no log line of the process
\* it stopped is passed to the caller.
NothingDeliveredAfterStop ==
    [][\A s \in Sessions : Delivers(s) => procs[s].code # SIGNALLED]_vars

\* C27: whenever a sync process launched by the supervisor is alive,
\* activeSyncProcess refers to it (so that stopSync ends it).
ActiveRefersToAlive ==
    \A s \in Sessions : Alive(s) => activeSyncProcess = s

\* launch() of session s runs in this step
Launches(s) == procs[s].status # "running" /\ procs'[s].status = "running"

\* C28: every process is launched for the session of the last startSync
\* call, and the restart timer of an earlier session does not touch the
\* process of that session.
LaunchesOnlyCurrentSession ==
    [][\A s \in Sessions :
          /\ Launches(s) => s = current'
          /\ (timer[s] /\ ~timer'[s] /\ s # current)
             => procs'[current] = procs[current]]_vars

\* C29: every startSync call returns: its promise is resolved in the end.
EveryStartSyncReturns ==
    \A s \in Sessions :
        (procs[s].status # "unborn" /\ result[s] = "pending")
            ~> (result[s] # "pending")

\* C30: the promise of a startSync call is resolved with success only by the
\* success line of a running process of that call.
SuccessOnlyOnSuccessLine ==
    [][\A s \in Sessions :
          (result[s] # "success" /\ result'[s] = "success")
          => (/\ procs[s].status = "running" /\ procs'[s].status = "running"
              /\ procs[s].stage = "boot" /\ procs'[s].stage = "init")]_vars

(***************************************************************************)
(* Properties of the stdout 'data' handler and of the status tracker.      *)
(***************************************************************************)
IsSyncEvent(line) == line.json /\ line.type = "sync_event"

\* C31: the sync events passed to onEvent are the sync_event lines the
\* 'data' handler has read so far, each once and in the order written,
\* however the output was cut into chunks.
EveryEventLineDelivered ==
    SelectSeq(delivered, IsSyncEvent)
        = SelectSeq(SubSeq(emitted, 1, consumed), IsSyncEvent)

\* the events handled by the page that carry the file name k
HandledFor(k) ==
    SelectSeq(SubSeq(delivered, 1, handled),
              LAMBDA e : e.type = "sync_event" /\ e.file = k)

\* C39: an entry of the status tracker is never removed, and the status
\* kept for a file name is the status of the last event received for it.
TrackerKeepsLastStatus ==
    /\ [][\A k \in EvKeys :
             syncStatuses[k] # "none" => syncStatuses'[k] # "none"]_vars
    /\ [](\A k \in EvKeys :
             syncStatuses[k] = IF HandledFor(k) = <<>> THEN "none"
                               ELSE Last(HandledFor(k)).status)

\* a file that was uploaded and then deleted is still tracked, with the
\* status of its last event
TrackedAfterDelete ==
    \E k \in EvKeys :
        /\ Len(HandledFor(k)) >= 3
        /\ Last(HandledFor(k)).status = "deleted"
        /\ syncStatuses[k] = "deleted"

(***************************************************************************)
(* Properties of the local side of the view merger.                        *)
(***************************************************************************)
\* C37: only a navigation path under rootFolderName is resolved to a local
\* directory: the listing of any other folder has no local entry.
OnlyTreePathsAreLocal ==
    (lastSyncPath # NoSync /\ currentLocalPath # <<>>
     /\ ~InsideTree(currentLocalPath))
        => \A j \in 1..Len(objects) : ~objects[j].isLocal

\* the local directory the folder shown is resolved to exists
LocalFolderExists ==
    LET rel == RelativePath(currentLocalPath, RootName(lastSyncPath))
    IN  rel = <<>> \/ [path |-> rel, dir |-> TRUE] \in localTree

\* C40: when the local directory of the folder shown does not exist the
\* listing is still made and holds the remote entries of that level.
MissingLocalFolderKeepsRemote ==
    (lastSyncPath # NoSync /\ authOK /\ currentLocalPath # <<>>
     /\ ~LocalFolderExists)
        => \A n \in RemoteChildren(currentLocalPath) :
              ~Blank(n) => \E j \in 1..Len(objects) : objects[j].name = n

(***************************************************************************)
(* Properties of the hand-over from the scan to the watcher.               *)
(***************************************************************************)
\* C32: no file is missed between scanning and watching - once the script
\* watches and nothing is in progress, the upload of every file that is in
\* the folder has been started.
NoFileMissedBetweenScanAndWatch ==
    (pyPhase = "watch" /\ \A q \in EvPaths : cyc[q] = "idle")
        => fsFiles \subseteq Attempted


(***************************************************************************)
(* Properties of the explorer page with calls in flight.                   *)
(***************************************************************************)
\* the list shown is the merge for the current bucket, lastSyncPath and
\* currentLocalPath
ListIsCurrent ==
    objects = MergedListing(listObjects(bucket, authOK, currentPrefix),
                            localTree, lastSyncPath, currentLocalPath)

\* C33: once no loadObjects call is in flight, the list shown is the merge
\* for the current bucket, lastSyncPath and currentLocalPath; a load started
\* for an earlier directory does not overwrite the load of the current one
ShownListIsForCurrentFolder == calls = {} => ListIsCurrent

\* the full key of the entry called name in the directory being viewed: the
\* top level of the bucket in the cloud view and in the virtual root
EntryKey(sync, cur, name) ==
    IF sync = NoSync \/ cur = <<>> THEN name ELSE Slash(cur, name)

\* C34: deleting an entry selected in the list of the directory being viewed
\* removes the object at the entry's full key in that directory, with
\* everything under it, and nothing else: no object of the top level that
\* only has the same leaf name
DeleteRemovesTheEntryKey ==
    [][(ListIsCurrent /\ bucket' # bucket) =>
          bucket' = DeleteRecursive(bucket, TRUE,
                                    EntryKey(lastSyncPath, currentLocalPath,
                                             opResult'.name))]_vars

\* C35: when handleStopSync has run (lastSyncPath set back to null), no
\* background sync process is running any more
StopSyncEndsTheProcess ==
    [][(lastSyncPath # NoSync /\ lastSyncPath' = NoSync) =>
          \A s \in Sessions : procs'[s].status # "running"]_vars

\* C36: a bucket operation that failed in the object store gives a result
\* whose success field, as the renderer reads it, is false
StoreFailureReadAsFailure ==
    (opResult.op = "deleteObject" /\ ~opResult.stored) => ~opResult.success

\* C38: an authentication that fails leaves activeCredentialPath and the
\* persisted lastCredentialPath as they were
FailedAuthKeepsCredential ==
    [][(opResult'.op = "authenticate" /\ ~opResult'.stored) =>
          UNCHANGED credVars]_vars

====
